---------------------------- MODULE Spec2Model ----------------------------
(***************************************************************************)
(* A model of octowebsocket/_abnf.py: the masker (_mask, ABNF.mask), the   *)
(* frame encoder (ABNF.create_frame, ABNF.format), the frame decoder       *)
(* (frame_buffer) and the message reassembler (continuous_frame).          *)
(*                                                                         *)
(* A byte string is a sequence of integers in 0..255.  A Python Optional   *)
(* is a sequence of length 0 (None) or 1 (the value).                      *)
(***************************************************************************)
EXTENDS Integers, Sequences, FiniteSets, TLC

VARIABLES
    \* masker harness: one call of ABNF.mask, then a second on its result
    m_key, m_data, m_out, m_pc,
    \* continuous_frame: its configuration and its two fields
    fire_cont_frame, skip_utf8_validation, recving_frames, cont_data,
    \* history of the reassembler: the data frames accepted for the message
    \* that is open or was last completed, whether a control frame arrived
    \* since that message was opened, the last frame handed in and its outcome
    r_hist, r_ctrl, r_in, r_out,
    \* the byte source: the bytes it holds that no recv_into has returned yet
    wire,
    \* frame_buffer: its fields (lock: whether the Lock is held)
    fb_skip_utf8_validation, fb_header, fb_length, fb_mask_value, fb_lock,
    \* the recv_frame call in progress: the phase whose recv_strict is waiting
    \* for the source ("idle": no call), and recv_strict's shortage and buffer
    d_pc, d_shortage, d_buffer,
    \* what the recv_frame calls made so far returned or raised, in order
    d_rets,
    \* how many times recv_into has returned 0, the source being at its end
    d_zero_reads,
    \* the peer: the frame it encodes, the mask key its get_mask_key yields,
    \* the bytes that follow the frame on the wire, and whether it has sent
    \* (w_sent: every byte it has put on the wire)
    w_frame, w_key, w_tail, w_pc, w_sent,
    \* validation harness: one call of ABNF.validate on a frame
    v_frame, v_skip, v_out, v_pc,
    \* format harness: one call of format() on a frame object, with the key
    \* its get_mask_key yields; f_out is the object afterwards and the view
    f_frame, f_key, f_out, f_pc,
    \* stream harness: the frames a peer sends one after the other and how
    \* many it has sent; per calling thread, where its recv_frame call is
    \* ("out": not in a call), its recv_strict's shortage and buffer and the
    \* positions in the stream of the bytes the call has read; what the calls
    \* returned or raised, in the order they ended
    s_frames, s_sent, thr, t_rets

maskVars == <<m_key, m_data, m_out, m_pc>>

reasmVars ==
    <<fire_cont_frame, skip_utf8_validation, recving_frames, cont_data,
      r_hist, r_ctrl, r_in, r_out>>

decVars ==
    <<wire, fb_skip_utf8_validation, fb_header, fb_length, fb_mask_value,
      fb_lock, d_pc, d_shortage, d_buffer, d_rets, d_zero_reads, w_frame,
      w_key, w_tail, w_pc, w_sent>>

valVars == <<v_frame, v_skip, v_out, v_pc>>

fmtVars == <<f_frame, f_key, f_out, f_pc>>

streamVars == <<s_frames, s_sent, thr, t_rets>>

\* the variables of the decoder harnesses that have one caller and one frame
singleCallerVars ==
    <<d_pc, d_shortage, d_buffer, d_rets, d_zero_reads, w_frame, w_key,
      w_tail, w_pc>>

notMaskVars == <<reasmVars, decVars, valVars, fmtVars, streamVars>>

notReasmVars == <<maskVars, decVars, valVars, fmtVars, streamVars>>

notDecVars == <<maskVars, reasmVars, valVars, fmtVars, streamVars>>

notValVars == <<maskVars, reasmVars, decVars, fmtVars, streamVars>>

notFmtVars == <<maskVars, reasmVars, decVars, valVars, streamVars>>

notStreamVars == <<maskVars, reasmVars, valVars, fmtVars, singleCallerVars>>

vars == <<maskVars, reasmVars, decVars, valVars, fmtVars, streamVars>>

-----------------------------------------------------------------------------
(* Integers and byte strings *)

Byte == 0..255

None == <<>>

Some(v) == <<v>>

\* The values a component's variables keep while another component is
\* the one under study.
MaskIdle ==
    /\ m_key = <<0, 0, 0, 0>>
    /\ m_data = <<>>
    /\ m_out = <<>>
    /\ m_pc = "off"

ReasmIdle ==
    /\ fire_cont_frame = FALSE
    /\ skip_utf8_validation = FALSE
    /\ recving_frames = None
    /\ cont_data = None
    /\ r_hist = <<>>
    /\ r_ctrl = FALSE
    /\ r_in = <<>>
    /\ r_out = [kind |-> "off", opcode |-> 0, data |-> <<>>]

DecIdle ==
    /\ wire = <<>>
    /\ fb_skip_utf8_validation = FALSE
    /\ fb_header = None
    /\ fb_length = None
    /\ fb_mask_value = None
    /\ fb_lock = FALSE
    /\ d_pc = "off"
    /\ d_shortage = 0
    /\ d_buffer = <<>>
    /\ d_rets = <<>>
    /\ d_zero_reads = 0
    /\ w_frame = <<>>
    /\ w_key = <<>>
    /\ w_tail = <<>>
    /\ w_pc = "off"
    /\ w_sent = <<>>

ValIdle ==
    /\ v_frame = <<>>
    /\ v_skip = FALSE
    /\ v_out = <<>>
    /\ v_pc = "off"

FmtIdle ==
    /\ f_frame = <<>>
    /\ f_key = <<0, 0, 0, 0>>
    /\ f_out = <<>>
    /\ f_pc = "off"

StreamIdle ==
    /\ s_frames = <<>>
    /\ s_sent = 0
    /\ thr = <<>>
    /\ t_rets = <<>>

Min(a, b) == IF a < b THEN a ELSE b

RECURSIVE BitXor(_, _)
\* a ^ b on non-negative integers
BitXor(a, b) ==
    IF a = 0 THEN b
    ELSE IF b = 0 THEN a
    ELSE ((a + b) % 2) + 2 * BitXor(a \div 2, b \div 2)

RECURSIVE BitOr(_, _)
\* a | b on non-negative integers
BitOr(a, b) ==
    IF a = 0 THEN b
    ELSE IF b = 0 THEN a
    ELSE (IF (a % 2) + (b % 2) > 0 THEN 1 ELSE 0) + 2 * BitOr(a \div 2, b \div 2)

RECURSIVE BitAnd(_, _)
\* a & b on non-negative integers
BitAnd(a, b) ==
    IF a = 0 \/ b = 0 THEN 0
    ELSE (IF (a % 2) + (b % 2) = 2 THEN 1 ELSE 0) + 2 * BitAnd(a \div 2, b \div 2)

RECURSIVE Pow2(_)
Pow2(n) == IF n = 0 THEN 1 ELSE 2 * Pow2(n - 1)

\* a << n and a >> n
Shl(a, n) == a * Pow2(n)

Shr(a, n) == a \div Pow2(n)

\* s * n for a Python sequence s: n copies of s, one after the other
Repeat(s, n) ==
    IF Len(s) = 0 \/ n <= 0 THEN <<>>
    ELSE [i \in 1..(Len(s) * n) |-> s[((i - 1) % Len(s)) + 1]]

\* s[:n]
Prefix(s, n) == SubSeq(s, 1, Min(n, Len(s)))

\* s[n:]
Suffix(s, n) == SubSeq(s, n + 1, Len(s))

-----------------------------------------------------------------------------
(* The masker.                                                             *)
(*                                                                         *)
(* A Python int is unbounded: it is modelled by its base-256 digits, least *)
(* significant first, without high-order zero digits (the canonical form   *)
(* of the number; the length of the byte string it came from is lost).     *)

\* a digit string without its high-order zero digits
StripHigh(d) ==
    LET nz == {i \in 1..Len(d) : d[i] # 0}
    IN  IF nz = {} THEN <<>>
        ELSE SubSeq(d, 1, CHOOSE i \in nz : \A j \in nz : j <= i)

\* int.from_bytes(b, native_byteorder), native_byteorder = "little"
int_from_bytes(b) == StripHigh(b)

\* n.to_bytes(length, native_byteorder): zero-extended to length bytes
int_to_bytes(n, length) ==
    [i \in 1..length |-> IF i <= Len(n) THEN n[i] ELSE 0]

\* x ^ y on unbounded ints
IntXor(x, y) ==
    LET n == IF Len(x) > Len(y) THEN Len(x) ELSE Len(y)
        dx(i) == IF i <= Len(x) THEN x[i] ELSE 0
        dy(i) == IF i <= Len(y) THEN y[i] ELSE 0
    IN  StripHigh([i \in 1..n |-> BitXor(dx(i), dy(i))])

\* a tiling that drops the partial repetition of the key at the end
MaskTile_NoTail(mask_value, datalen) ==
    Repeat(mask_value, datalen \div 4) \o [i \in 1..(datalen % 4) |-> 0]

\* the mask key tiled over datalen bytes:
\* mask_value * (datalen // 4) + mask_value[: datalen % 4]
MaskTile(mask_value, datalen) ==
    Repeat(mask_value, datalen \div 4) \o Prefix(mask_value, datalen % 4)

_mask(mask_value, data_value) ==
    LET datalen == Len(data_value)
        int_data_value == int_from_bytes(data_value)
        int_mask_value == int_from_bytes(MaskTile(mask_value, datalen))
    IN  int_to_bytes(IntXor(int_data_value, int_mask_value), datalen)

\* ABNF.mask on byte strings (the str branches encode to bytes first)
ABNF_mask(mask_key, data) == _mask(mask_key, data)

-----------------------------------------------------------------------------
(* Masker harness *)

MaxMaskLen == 5

MaskBytes == {0, 1, 165, 255}

MaskKeys ==
    {<<0, 0, 0, 0>>, <<1, 128, 165, 255>>, <<255, 255, 255, 255>>,
     <<55, 250, 33, 61>>, <<0, 0, 0, 1>>}

SeqsUpTo(S, n) == UNION {[1..k -> S] : k \in 0..n}

MaskInit ==
    /\ m_key \in MaskKeys
    /\ m_data \in SeqsUpTo(MaskBytes, MaxMaskLen)
    /\ m_out = <<>>
    /\ m_pc = "start"

MaskOnce ==
    /\ m_pc = "start"
    /\ m_out' = ABNF_mask(m_key, m_data)
    /\ m_pc' = "once"
    /\ UNCHANGED <<m_key, m_data, notMaskVars>>

MaskTwice ==
    /\ m_pc = "once"
    /\ m_out' = ABNF_mask(m_key, m_out)
    /\ m_pc' = "twice"
    /\ UNCHANGED <<m_key, m_data, notMaskVars>>

MaskNext == MaskOnce \/ MaskTwice

InitMask == MaskInit /\ ReasmIdle /\ DecIdle /\ ValIdle /\ FmtIdle /\ StreamIdle

SpecMask == InitMask /\ [][MaskNext]_vars

\* C10: mask(k, P) has the length of P, its byte i is P[i] XOR k[i mod 4]
\* (indices from 0), and masking the result again with k gives P back.
C10_MaskXorInvolution ==
    /\ m_pc = "once" =>
          /\ Len(m_out) = Len(m_data)
          /\ \A i \in 1..Len(m_data) :
                m_out[i] = BitXor(m_data[i], m_key[((i - 1) % 4) + 1])
    /\ m_pc = "twice" => m_out = m_data

C10_Witness ==
    /\ m_pc = "twice"
    /\ Len(m_data) = 5
    /\ m_key = <<1, 128, 165, 255>>
    /\ m_data[5] = 255
    /\ m_out = m_data

-----------------------------------------------------------------------------
(* Frames *)

OPCODE_CONT == 0

OPCODE_TEXT == 1

OPCODE_BINARY == 2

OPCODE_CLOSE == 8

OPCODE_PING == 9

OPCODE_PONG == 10

\* a set of opcodes that takes in the reserved ones below PONG
OPCODES_0_to_10 == 0..10

OPCODES ==
    {OPCODE_CONT, OPCODE_TEXT, OPCODE_BINARY, OPCODE_CLOSE, OPCODE_PING,
     OPCODE_PONG}

\* ABNF.__init__ for a bytes payload without a window
ABNF(fin, rsv1, rsv2, rsv3, opcode, mask_value, data) ==
    [fin |-> fin, rsv1 |-> rsv1, rsv2 |-> rsv2, rsv3 |-> rsv3,
     opcode |-> opcode, mask_value |-> mask_value, data |-> data,
     data_start_offset_bytes |-> 0, data_msg_length_bytes |-> Len(data)]

-----------------------------------------------------------------------------
(* UTF-8 well-formedness (RFC 3629): validate_utf8 of _utils *)

Cont(b) == b >= 128 /\ b <= 191

\* whether a well-formed character starts at s[i], a byte that is no
\* continuation byte: the lead byte, the continuation bytes it calls for
\* (no overlong form, no surrogate, nothing above U+10FFFF), and after
\* them the end of s or the start of another character
CharAt(s, i) ==
    LET b == s[i]
        n == Len(s) - i
        c1 == s[i + 1]
        c2 == s[i + 2]
        c3 == s[i + 3]
        ends(k) == i + k > Len(s) \/ ~Cont(s[i + k])
    IN  IF b <= 127 THEN ends(1)
        ELSE IF b >= 194 /\ b <= 223
          THEN n >= 1 /\ Cont(c1) /\ ends(2)
        ELSE IF b = 224
          THEN n >= 2 /\ c1 >= 160 /\ c1 <= 191 /\ Cont(c2) /\ ends(3)
        ELSE IF (b >= 225 /\ b <= 236) \/ b = 238 \/ b = 239
          THEN n >= 2 /\ Cont(c1) /\ Cont(c2) /\ ends(3)
        ELSE IF b = 237
          THEN n >= 2 /\ c1 >= 128 /\ c1 <= 159 /\ Cont(c2) /\ ends(3)
        ELSE IF b = 240
          THEN n >= 3 /\ c1 >= 144 /\ c1 <= 191 /\ Cont(c2) /\ Cont(c3)
               /\ ends(4)
        ELSE IF b >= 241 /\ b <= 243
          THEN n >= 3 /\ Cont(c1) /\ Cont(c2) /\ Cont(c3) /\ ends(4)
        ELSE IF b = 244
          THEN n >= 3 /\ c1 >= 128 /\ c1 <= 143 /\ Cont(c2) /\ Cont(c3)
               /\ ends(4)
        ELSE FALSE

\* s is a sequence of well-formed characters: it does not start with a
\* continuation byte, and a well-formed character starts at every byte
\* that is none (so every continuation byte belongs to one)
validate_utf8(s) ==
    /\ Len(s) > 0 => ~Cont(s[1])
    /\ \A i \in 1..Len(s) : ~Cont(s[i]) => CharAt(s, i)

-----------------------------------------------------------------------------
(* continuous_frame: the message reassembler *)

\* Python truth of an Optional[int]: None and 0 are false
TruthyInt(o) == o # None /\ o[1] # 0

\* Python truth of an Optional[list]: None and [] are false; cont_data,
\* when set, is the two-element list <<opcode, data>>
TruthyList(o) == o # None

\* a validate that forgets the check made while a message is open
continuous_frame_validate_cont_only(rf, frame) ==
    IF ~TruthyInt(rf) /\ frame.opcode = OPCODE_CONT
      THEN "WebSocketProtocolException"
    ELSE "ok"

\* continuous_frame.validate: "ok", or the exception it raises
continuous_frame_validate(rf, frame) ==
    IF ~TruthyInt(rf) /\ frame.opcode = OPCODE_CONT
      THEN "WebSocketProtocolException"
    ELSE IF TruthyInt(rf) /\ frame.opcode \in {OPCODE_TEXT, OPCODE_BINARY}
      THEN "WebSocketProtocolException"
    ELSE "ok"

\* an add that puts the new fragment in front of the accumulated payload
continuous_frame_add_prepend(cd, rf, frame) ==
    LET cd1 == IF TruthyList(cd)
                 THEN <<cd[1], frame.data \o cd[2]>>
                 ELSE <<frame.opcode, frame.data>>
        rf1 == IF ~TruthyList(cd)
                  /\ frame.opcode \in {OPCODE_TEXT, OPCODE_BINARY}
                 THEN Some(frame.opcode)
                 ELSE rf
    IN  [cont_data |-> cd1,
         recving_frames |-> IF frame.fin # 0 THEN None ELSE rf1]

\* an add that leaves the building opcode in place when fin is set
continuous_frame_add_keep_open(cd, rf, frame) ==
    LET cd1 == IF TruthyList(cd)
                 THEN <<cd[1], cd[2] \o frame.data>>
                 ELSE <<frame.opcode, frame.data>>
        rf1 == IF ~TruthyList(cd)
                  /\ frame.opcode \in {OPCODE_TEXT, OPCODE_BINARY}
                 THEN Some(frame.opcode)
                 ELSE rf
    IN  [cont_data |-> cd1, recving_frames |-> rf1]

\* continuous_frame.add: the two fields after the call
continuous_frame_add(cd, rf, frame) ==
    LET cd1 == IF TruthyList(cd)
                 THEN <<cd[1], cd[2] \o frame.data>>
                 ELSE <<frame.opcode, frame.data>>
        rf1 == IF ~TruthyList(cd)
                  /\ frame.opcode \in {OPCODE_TEXT, OPCODE_BINARY}
                 THEN Some(frame.opcode)
                 ELSE rf
    IN  [cont_data |-> cd1,
         recving_frames |-> IF frame.fin # 0 THEN None ELSE rf1]

\* an is_fire that waits for fin whatever the configuration
continuous_frame_is_fire_fin_only(frame, fire) == frame.fin # 0

\* continuous_frame.is_fire: frame.fin or self.fire_cont_frame
continuous_frame_is_fire(frame, fire) == frame.fin # 0 \/ fire

\* an extract that keeps the accumulated payload
continuous_frame_extract_keeping(cd, fire, skip) ==
    [cont_data |-> cd,
     exc |-> IF /\ ~fire
                /\ cd[1] = OPCODE_TEXT
                /\ ~skip
                /\ ~validate_utf8(cd[2])
               THEN "WebSocketPayloadException"
               ELSE "ok",
     opcode |-> cd[1],
     data |-> cd[2]]

\* an extract that never validates
continuous_frame_extract_unchecked(cd, fire, skip) ==
    [cont_data |-> None, exc |-> "ok", opcode |-> cd[1], data |-> cd[2]]

\* continuous_frame.extract, called with cont_data set: cont_data is cleared
\* first; then either the payload exception or (data[0], frame) with
\* frame.data = data[1]
continuous_frame_extract(cd, fire, skip) ==
    LET data == cd
    IN  [cont_data |-> None,
         exc |-> IF /\ ~fire
                    /\ data[1] = OPCODE_TEXT
                    /\ ~skip
                    /\ ~validate_utf8(data[2])
                   THEN "WebSocketPayloadException"
                   ELSE "ok",
         opcode |-> data[1],
         data |-> data[2]]

-----------------------------------------------------------------------------
(* Reassembler harness: frames as the decoder returns them are handed to   *)
(* the reassembler one at a time.                                          *)

\* most data frames of one message
MaxFrames == 3

\* fragment payloads: empty, 'A', and the two bytes of U+00E9, each of
\* which is malformed UTF-8 alone and which are well-formed in this order
Fragments == {<<>>, <<65>>, <<195>>, <<169>>}

NoOut == [kind |-> "start", opcode |-> 0, data |-> <<>>]

\* continuous_frame.__init__
ReasmInit ==
    /\ fire_cont_frame \in BOOLEAN
    /\ skip_utf8_validation \in BOOLEAN
    /\ recving_frames = None
    /\ cont_data = None
    /\ r_hist = <<>>
    /\ r_ctrl = FALSE
    /\ r_in = <<>>
    /\ r_out = NoOut

RECURSIVE Concat(_)
\* the payloads of a sequence of frames, one after the other
Concat(fs) ==
    IF Len(fs) = 0 THEN <<>> ELSE Concat(SubSeq(fs, 1, Len(fs) - 1)) \o fs[Len(fs)].data

\* A data frame (CONT, TEXT, BINARY): validate, add, and extract when
\* is_fire holds.
RecvDataFrame(frame) ==
    LET v == continuous_frame_validate(recving_frames, frame)
        a == continuous_frame_add(cont_data, recving_frames, frame)
        e == continuous_frame_extract(a.cont_data, fire_cont_frame,
                                      skip_utf8_validation)
        fresh == frame.opcode # OPCODE_CONT
    IN  /\ r_in' = Some(frame)
        /\ IF v # "ok"
              THEN /\ r_out' = [kind |-> v, opcode |-> frame.opcode, data |-> <<>>]
                   /\ UNCHANGED <<recving_frames, cont_data, r_hist, r_ctrl>>
              ELSE /\ r_hist' = IF fresh THEN <<frame>> ELSE Append(r_hist, frame)
                   /\ r_ctrl' = IF fresh THEN FALSE ELSE r_ctrl
                   /\ recving_frames' = a.recving_frames
                   /\ IF continuous_frame_is_fire(frame, fire_cont_frame)
                        THEN /\ cont_data' = e.cont_data
                             /\ r_out' = IF e.exc # "ok"
                                           THEN [kind |-> e.exc, opcode |-> e.opcode,
                                                 data |-> <<>>]
                                           ELSE [kind |-> "message",
                                                 opcode |-> e.opcode,
                                                 data |-> e.data]
                        ELSE /\ cont_data' = a.cont_data
                             /\ r_out' = [kind |-> "nothing", opcode |-> frame.opcode,
                                          data |-> <<>>]

\* a dispatch that hands control frames to the reassembler like data frames
RecvControlFrame_as_data(frame) ==
    LET a == continuous_frame_add(cont_data, recving_frames, frame)
    IN  /\ r_in' = Some(frame)
        /\ r_out' = [kind |-> "control", opcode |-> frame.opcode,
                     data |-> frame.data]
        /\ r_ctrl' = TRUE
        /\ cont_data' = a.cont_data
        /\ recving_frames' = a.recving_frames
        /\ UNCHANGED r_hist

\* A control frame (CLOSE, PING, PONG) is handed to the caller at once and
\* never reaches the reassembler.
RecvControlFrame(frame) ==
    /\ r_in' = Some(frame)
    /\ r_out' = [kind |-> "control", opcode |-> frame.opcode, data |-> frame.data]
    /\ r_ctrl' = TRUE
    /\ UNCHANGED <<recving_frames, cont_data, r_hist>>

DataFrames ==
    {ABNF(fin, 0, 0, 0, op, 0, d) :
        fin \in {0, 1}, op \in {OPCODE_CONT, OPCODE_TEXT, OPCODE_BINARY},
        d \in Fragments}

\* the control frames the decoder returns (it refuses a PING with fin = 0)
ControlFrames ==
    {ABNF(1, 0, 0, 0, OPCODE_CLOSE, 0, <<3, 232>>),
     ABNF(1, 0, 0, 0, OPCODE_PING, 0, <<65>>),
     ABNF(1, 0, 0, 0, OPCODE_PONG, 0, <<>>)}

ReasmData ==
    /\ \E frame \in DataFrames :
          /\ frame.opcode = OPCODE_CONT => Len(r_hist) < MaxFrames
          /\ RecvDataFrame(frame)
    /\ UNCHANGED <<fire_cont_frame, skip_utf8_validation, notReasmVars>>

ReasmControl ==
    /\ \E frame \in ControlFrames : RecvControlFrame(frame)
    /\ UNCHANGED <<fire_cont_frame, skip_utf8_validation, notReasmVars>>

ReasmNext == ReasmData \/ ReasmControl

InitReasm == ReasmInit /\ MaskIdle /\ DecIdle /\ ValIdle /\ FmtIdle /\ StreamIdle

SpecReasm == InitReasm /\ [][ReasmNext]_vars

-----------------------------------------------------------------------------
(* Claims about the reassembler *)

\* the last frame processed was a data frame that passed validate: it is
\* the last frame of r_hist and r_out is what it produced
AfterData ==
    r_out.kind \in {"nothing", "message", "WebSocketPayloadException"}

\* r_hist is F0 = (TEXT or BINARY, fin=0) followed by CONT frames
Fragmented ==
    /\ Len(r_hist) >= 1
    /\ r_hist[1].opcode \in {OPCODE_TEXT, OPCODE_BINARY}
    /\ r_hist[1].fin = 0
    /\ \A i \in 2..Len(r_hist) : r_hist[i].opcode = OPCODE_CONT

Last(h) == h[Len(h)]

WholeMessage ==
    [kind |-> "message", opcode |-> r_hist[1].opcode, data |-> Concat(r_hist)]

\* the whole payload of a TEXT message fails the UTF-8 check that applies
Malformed ==
    /\ r_hist[1].opcode = OPCODE_TEXT
    /\ ~skip_utf8_validation
    /\ ~validate_utf8(Concat(r_hist))

\* C1 as stated: with fire_cont_frame = false nothing is emitted for the
\* fragments with fin=0, and the fragment with fin=1 emits one message with
\* the opcode of F0 and the payloads of all fragments in arrival order.
C1_AsStated ==
    (~fire_cont_frame /\ AfterData /\ Fragmented) =>
        /\ \A i \in 1..(Len(r_hist) - 1) : r_hist[i].fin = 0
        /\ IF Last(r_hist).fin = 0
             THEN r_out.kind = "nothing"
             ELSE r_out = WholeMessage

\* C1, amended: as C1, except that for F0 = TEXT without skip_utf8_validation
\* a concatenated payload that is not valid UTF-8 makes the last fragment
\* raise a payload error, and then no message is emitted.
C1_FragmentsInOrder ==
    (~fire_cont_frame /\ AfterData /\ Fragmented) =>
        /\ \A i \in 1..(Len(r_hist) - 1) : r_hist[i].fin = 0
        /\ IF Last(r_hist).fin = 0
             THEN r_out.kind = "nothing"
             ELSE IF Malformed
               THEN r_out.kind = "WebSocketPayloadException"
               ELSE r_out = WholeMessage

C1_Witness ==
    /\ ~fire_cont_frame
    /\ Fragmented
    /\ Len(r_hist) = 3
    /\ r_hist[1].opcode = OPCODE_BINARY
    /\ r_out = [kind |-> "message", opcode |-> OPCODE_BINARY,
                data |-> <<169, 65, 195>>]

\* the message being built, as validate sees it: the building opcode
Building == TruthyInt(recving_frames)

\* C2: a CONT frame while no message is being built, and a TEXT or BINARY
\* frame while one is, is refused with a protocol error, and the building
\* opcode and the accumulated payload stay as they were.
C2_IllegalFrameRejected ==
    [][(\/ ~Building /\ r_in'[1].opcode = OPCODE_CONT
        \/ Building /\ r_in'[1].opcode \in {OPCODE_TEXT, OPCODE_BINARY})
       => /\ r_out'.kind = "WebSocketProtocolException"
          /\ recving_frames' = recving_frames
          /\ cont_data' = cont_data]_vars

C2_Witness ==
    /\ r_out.kind = "WebSocketProtocolException"
    /\ r_in = Some(ABNF(1, 0, 0, 0, OPCODE_TEXT, 0, <<195>>))
    /\ recving_frames = Some(OPCODE_BINARY)
    /\ cont_data = <<OPCODE_BINARY, <<65, 169>>>>

\* C3: a control frame is emitted at once with its own opcode and payload
\* and leaves the building opcode and the accumulated payload as they were;
\* a message completed after it is the concatenation of the data fragments.
C3_ControlFrameInterleaved ==
    /\ [][r_in'[1].opcode \in {OPCODE_CLOSE, OPCODE_PING, OPCODE_PONG}
          => /\ r_out' = [kind |-> "control", opcode |-> r_in'[1].opcode,
                          data |-> r_in'[1].data]
             /\ recving_frames' = recving_frames
             /\ cont_data' = cont_data]_vars
    /\ [](( /\ ~fire_cont_frame
            /\ r_ctrl
            /\ r_out.kind = "message"
            /\ Fragmented )
          => r_out = WholeMessage)

C3_Witness ==
    /\ ~fire_cont_frame
    /\ r_ctrl
    /\ Fragmented
    /\ Len(r_hist) = 2
    /\ r_out = [kind |-> "message", opcode |-> OPCODE_TEXT,
                data |-> <<195, 169>>]

\* C6: with fire_cont_frame = false and skip_utf8_validation = false a TEXT
\* message, in one frame or in fragments, is emitted exactly when its whole
\* payload is valid UTF-8 and raises a payload error otherwise; a fragment
\* with fin=0 is never judged; a BINARY message is always emitted.
C6_TextValidatedWhole ==
    (/\ ~fire_cont_frame
     /\ ~skip_utf8_validation
     /\ AfterData
     /\ Len(r_hist) >= 1
     /\ r_hist[1].opcode \in {OPCODE_TEXT, OPCODE_BINARY}) =>
        IF Last(r_hist).fin = 0
          THEN r_out.kind = "nothing"
        ELSE IF r_hist[1].opcode = OPCODE_BINARY
          THEN r_out.kind = "message"
        ELSE /\ r_out.kind = "message" <=> validate_utf8(Concat(r_hist))
             /\ r_out.kind # "message"
                  => r_out.kind = "WebSocketPayloadException"

\* the two bytes of U+00E9 arrive in two fragments and the message is emitted
C6_Witness ==
    /\ ~fire_cont_frame
    /\ ~skip_utf8_validation
    /\ Len(r_hist) = 2
    /\ r_hist[1] = ABNF(0, 0, 0, 0, OPCODE_TEXT, 0, <<195>>)
    /\ r_hist[2] = ABNF(1, 0, 0, 0, OPCODE_CONT, 0, <<169>>)
    /\ r_out = [kind |-> "message", opcode |-> OPCODE_TEXT,
                data |-> <<195, 169>>]

-----------------------------------------------------------------------------
(* ABNF.validate *)

VALID_CLOSE_STATUS ==
    {1000, 1001, 1002, 1003, 1007, 1008, 1009, 1010, 1011, 1012, 1013, 1014}

\* an _is_valid_close_status whose private range includes its upper end
_is_valid_close_status_to_5000(code) ==
    code \in VALID_CLOSE_STATUS \/ (3000 <= code /\ code <= 5000)

\* ABNF._is_valid_close_status
_is_valid_close_status(code) ==
    code \in VALID_CLOSE_STATUS \/ (3000 <= code /\ code < 5000)

NoExc == [exc |-> "ok", msg |-> ""]

Raise(exc, msg) == [exc |-> exc, msg |-> msg]

\* ABNF.validate: NoExc when it returns, else the exception it raises
ABNF_validate(frame, skip) ==
    LET l == Len(frame.data)
        code == 256 * frame.data[1] + frame.data[2]
    IN  IF frame.rsv1 # 0 \/ frame.rsv2 # 0 \/ frame.rsv3 # 0
          THEN Raise("WebSocketProtocolException", "rsv is not implemented, yet")
        ELSE IF frame.opcode \notin OPCODES
          THEN Raise("WebSocketProtocolException", "Invalid opcode")
        ELSE IF frame.opcode = OPCODE_PING /\ frame.fin = 0
          THEN Raise("WebSocketProtocolException", "Invalid ping frame.")
        ELSE IF frame.opcode = OPCODE_CLOSE
          THEN IF l = 0 THEN NoExc
               ELSE IF l = 1 \/ l >= 126
                 THEN Raise("WebSocketProtocolException", "Invalid close frame.")
               ELSE IF l > 2 /\ ~skip /\ ~validate_utf8(Suffix(frame.data, 2))
                 THEN Raise("WebSocketProtocolException", "Invalid close frame.")
               ELSE IF ~_is_valid_close_status(code)
                 THEN Raise("WebSocketProtocolException", "Invalid close opcode")
               ELSE NoExc
        ELSE NoExc

-----------------------------------------------------------------------------
(* The frame encoder: ABNF.create_frame and ABNF.format *)

LENGTH_7 == 126

LENGTH_16 == 65536

RECURSIVE BigEndian(_, _)
\* struct.pack("!H", v) for n = 2 and struct.pack("!Q", v) for n = 8
BigEndian(v, n) ==
    IF n = 0 THEN <<>> ELSE Append(BigEndian(v \div 256, n - 1), v % 256)

RECURSIVE FromBigEndian(_)
\* struct.unpack("!H", b)[0] and struct.unpack("!Q", b)[0]
FromBigEndian(b) ==
    IF Len(b) = 0 THEN 0
    ELSE 256 * FromBigEndian(SubSeq(b, 1, Len(b) - 1)) + b[Len(b)]

\* ABNF.__init__ with a window on data
ABNF_window(fin, rsv1, rsv2, rsv3, opcode, mask_value, data, offset, length) ==
    [fin |-> fin, rsv1 |-> rsv1, rsv2 |-> rsv2, rsv3 |-> rsv3,
     opcode |-> opcode, mask_value |-> mask_value, data |-> data,
     data_start_offset_bytes |-> IF offset = None THEN 0 ELSE offset[1],
     data_msg_length_bytes |-> IF length = None THEN Len(data) ELSE length[1]]

\* ABNF.create_frame for a bytes payload
create_frame(data, opcode, fin, use_frame_mask, offset, length) ==
    ABNF_window(fin, 0, 0, 0, opcode, IF use_frame_mask THEN 1 ELSE 0, data,
                offset, length)

\* a header that still uses the 7-bit length field for L = 126
FrameHeader_7bit_126(fin, rsv1, rsv2, rsv3, opcode, mask_value, L) ==
    LET b0 == BitOr(Shl(fin, 7),
              BitOr(Shl(rsv1, 6),
              BitOr(Shl(rsv2, 5),
              BitOr(Shl(rsv3, 4), opcode))))
    IN  IF L <= LENGTH_7
          THEN <<b0, BitOr(Shl(mask_value, 7), L)>>
        ELSE IF L < LENGTH_16
          THEN <<b0, BitOr(Shl(mask_value, 7), 126)>> \o BigEndian(L, 2)
        ELSE <<b0, BitOr(Shl(mask_value, 7), 127)>> \o BigEndian(L, 8)

\* the header ABNF.format builds for a declared length L: the byte of fin,
\* rsv and opcode, the byte of mask bit and length field, the extended length
FrameHeader(fin, rsv1, rsv2, rsv3, opcode, mask_value, L) ==
    LET b0 == BitOr(Shl(fin, 7),
              BitOr(Shl(rsv1, 6),
              BitOr(Shl(rsv2, 5),
              BitOr(Shl(rsv3, 4), opcode))))
    IN  IF L < LENGTH_7
          THEN <<b0, BitOr(Shl(mask_value, 7), L)>>
        ELSE IF L < LENGTH_16
          THEN <<b0, BitOr(Shl(mask_value, 7), 126)>> \o BigEndian(L, 2)
        ELSE <<b0, BitOr(Shl(mask_value, 7), 127)>> \o BigEndian(L, 8)

\* a _get_masked that puts the key after the masked data
_get_masked_key_last(data, mask_key) == ABNF_mask(mask_key, data) \o mask_key

\* ABNF._get_masked: the key, then the whole of self.data masked
_get_masked(data, mask_key) == mask_key \o ABNF_mask(mask_key, data)

\* s[a:b] = v on a bytearray, for 0 <= a <= b <= len(s)
SliceAssign(s, a, b, v) == SubSeq(s, 1, a) \o v \o SubSeq(s, b + 1, Len(s))

\* s[a:b], for 0 <= a: Python clamps b to len(s)
Slice(s, a, b) == SubSeq(s, a + 1, Min(b, Len(s)))

\* ABNF.format with get_mask_key yielding mask_key: the exception, or the
\* object's data, offset and length afterwards and the view returned.
\* (The payload lengths of the model are far below LENGTH_63 = 2^63.)
ABNF_format(frame, mask_key) ==
    LET hdr == FrameHeader(frame.fin, frame.rsv1, frame.rsv2, frame.rsv3,
                           frame.opcode, frame.mask_value,
                           frame.data_msg_length_bytes)
        masked == frame.mask_value # 0
        d1 == IF masked THEN _get_masked(frame.data, mask_key) ELSE frame.data
        off1 == IF masked THEN 0 ELSE frame.data_start_offset_bytes
        len1 == IF masked THEN Len(d1) ELSE frame.data_msg_length_bytes
        hl == Len(hdr)
        inplace == hl < off1
        d2 == IF inplace THEN SliceAssign(d1, off1 - hl, off1, hdr)
                         ELSE hdr \o d1
        off2 == IF inplace THEN off1 - hl ELSE 0
        len2 == IF inplace THEN len1 + hl ELSE Len(d2)
    IN  IF \E x \in {frame.fin, frame.rsv1, frame.rsv2, frame.rsv3} :
              x \notin {0, 1}
          THEN [exc |-> "ValueError", view |-> <<>>]
        ELSE IF frame.opcode \notin OPCODES
          THEN [exc |-> "ValueError", view |-> <<>>]
        ELSE [exc |-> "ok", data |-> d2, data_start_offset_bytes |-> off2,
              data_msg_length_bytes |-> len2, view |-> Slice(d2, off2, off2 + len2)]

-----------------------------------------------------------------------------
(* Format harness: format() on a frame whose message is a window of a      *)
(* bytearray: margin bytes, the message, and bytes after the message.      *)

\* widest margin before the message
MaxMargin == 5

\* messages with a 2-byte header, and one with a 4-byte header
FmtMessages ==
    {<<>>, <<65>>, <<65, 66, 67>>, <<65, 66, 67, 68, 69>>,
     [i \in 1..126 |-> 65]}

\* a buffer of m margin bytes 0xAA, the message, t bytes 0xBB
FmtBuffer(m, msg, t) == [i \in 1..m |-> 170] \o msg \o [i \in 1..t |-> 187]

FmtInit ==
    /\ f_frame \in
         {create_frame(FmtBuffer(m, msg, t), op, 1, um, Some(m), Some(Len(msg))) :
             m \in 0..MaxMargin, msg \in FmtMessages, t \in {0, 2},
             op \in {OPCODE_TEXT, OPCODE_BINARY}, um \in BOOLEAN}
         \cup
         {create_frame(msg, op, 1, um, None, None) :
             msg \in FmtMessages, op \in {OPCODE_TEXT, OPCODE_BINARY},
             um \in BOOLEAN}
    /\ f_key \in IF f_frame.mask_value = 0 THEN {<<0, 0, 0, 0>>}
                 ELSE {<<1, 128, 165, 255>>, <<55, 250, 33, 61>>}
    /\ f_out = <<>>
    /\ f_pc = "start"

Format ==
    /\ f_pc = "start"
    /\ f_out' = ABNF_format(f_frame, f_key)
    /\ f_pc' = "done"
    /\ UNCHANGED <<f_frame, f_key, notFmtVars>>

FmtNext == Format

InitFmt == FmtInit /\ MaskIdle /\ ReasmIdle /\ DecIdle /\ ValIdle /\ StreamIdle

SpecFmt == InitFmt /\ [][FmtNext]_vars

-----------------------------------------------------------------------------
(* The frame decoder: frame_buffer *)

\* the most bytes recv_strict asks of the source in one recv_into
MaxRecvInto == 131072

_HEADER_MASK_INDEX == 5

_HEADER_LENGTH_INDEX == 6

\* the tuple frame_buffer.recv_header builds from the two header bytes
ParseHeader(header_buffer) ==
    LET b1 == header_buffer[1]
        b2 == header_buffer[2]
    IN  << BitAnd(Shr(b1, 7), 1), BitAnd(Shr(b1, 6), 1), BitAnd(Shr(b1, 5), 1),
           BitAnd(Shr(b1, 4), 1), BitAnd(b1, 15),
           BitAnd(Shr(b2, 7), 1), BitAnd(b2, 127) >>

\* frame_buffer.has_mask
has_mask(header) ==
    IF header = None THEN 0 ELSE header[1][_HEADER_MASK_INDEX + 1]

\* The decoder as a record: the fields of frame_buffer, the phase that waits
\* for the source with recv_strict's shortage and buffer, and the outcome
\* ret of the call once it is over.
Waiting(fb, phase, bufsize) ==
    [fb EXCEPT !.pc = phase, !.shortage = bufsize, !.buffer = <<>>]

\* a recv_frame that validates first and clears only when validate returns
Finish_clear_after_validate(fb, raw) ==
    LET h == fb.header[1]
        payload == IF h[6] # 0 THEN ABNF_mask(fb.mask_value[1], raw) ELSE raw
        frame == ABNF(h[1], h[2], h[3], h[4], h[5], h[6], payload)
        v == ABNF_validate(frame, fb.skip)
    IN  IF v.exc = "ok"
          THEN [fb EXCEPT !.header = None, !.length = None,
                          !.mask_value = None, !.pc = "idle", !.shortage = 0,
                          !.buffer = <<>>, !.lock = FALSE,
                          !.ret = [kind |-> "frame", frame |-> frame,
                                   msg |-> ""]]
          ELSE [fb EXCEPT !.pc = "idle", !.shortage = 0, !.buffer = <<>>,
                          !.lock = FALSE,
                          !.ret = [kind |-> v.exc, frame |-> frame,
                                   msg |-> v.msg]]

\* recv_frame from "Reset for next frame" on: clear(), build the frame,
\* validate it, leave the with block
Finish(fb, raw) ==
    LET h == fb.header[1]
        payload == IF h[6] # 0 THEN ABNF_mask(fb.mask_value[1], raw) ELSE raw
        frame == ABNF(h[1], h[2], h[3], h[4], h[5], h[6], payload)
        v == ABNF_validate(frame, fb.skip)
    IN  [fb EXCEPT !.header = None, !.length = None, !.mask_value = None,
                   !.pc = "idle", !.shortage = 0, !.buffer = <<>>,
                   !.lock = FALSE,
                   !.ret = IF v.exc = "ok"
                             THEN [kind |-> "frame", frame |-> frame,
                                   msg |-> ""]
                             ELSE [kind |-> v.exc, frame |-> frame,
                                   msg |-> v.msg]]

\* a payload phase that asks the source for one byte too many
AfterMask_one_more(fb) ==
    IF fb.length[1] > 0 THEN Waiting(fb, "payload", fb.length[1] + 1)
    ELSE Finish(fb, <<>>)

\* recv_frame from "Payload" on: recv_strict(length) reads nothing when
\* length is 0
AfterMask(fb) ==
    IF fb.length[1] > 0 THEN Waiting(fb, "payload", fb.length[1])
    ELSE Finish(fb, <<>>)

\* recv_frame from "Mask" on, with recv_mask
AfterLength(fb) ==
    IF fb.mask_value = None
      THEN IF has_mask(fb.header) # 0
             THEN Waiting(fb, "mask", 4)
             ELSE AfterMask([fb EXCEPT !.mask_value = Some(<<>>)])
      ELSE AfterMask(fb)

\* a recv_length that reads 8 bytes of extended length for 126 too
AfterHeader_length_8(fb) ==
    LET bits == fb.header[1][_HEADER_LENGTH_INDEX + 1]
        length_bits == BitAnd(bits, 127)
    IN  IF fb.length = None
          THEN IF length_bits = 126 \/ length_bits = 127
                 THEN Waiting(fb, "length", 8)
               ELSE AfterLength([fb EXCEPT !.length = Some(length_bits)])
          ELSE AfterLength(fb)

\* recv_frame from "Frame length" on, with recv_length
AfterHeader(fb) ==
    LET bits == fb.header[1][_HEADER_LENGTH_INDEX + 1]
        length_bits == BitAnd(bits, 127)
    IN  IF fb.length = None
          THEN IF length_bits = 126 THEN Waiting(fb, "length", 2)
               ELSE IF length_bits = 127 THEN Waiting(fb, "length", 8)
               ELSE AfterLength([fb EXCEPT !.length = Some(length_bits)])
          ELSE AfterLength(fb)

\* recv_frame from the top, the lock taken
Enter(fb) ==
    LET held == [fb EXCEPT !.lock = TRUE, !.ret = [kind |-> "none"]]
    IN  IF fb.header = None THEN Waiting(held, "header", 2)
        ELSE AfterHeader(held)

\* recv_strict has its bufsize bytes: the phase that asked captures them and
\* recv_frame runs on to the next read
Captured(fb) ==
    IF fb.pc = "header"
      THEN AfterHeader([fb EXCEPT !.header = Some(ParseHeader(fb.buffer))])
    ELSE IF fb.pc = "length"
      THEN AfterLength([fb EXCEPT !.length = Some(FromBigEndian(fb.buffer))])
    ELSE IF fb.pc = "mask"
      THEN AfterMask([fb EXCEPT !.mask_value = Some(fb.buffer)])
    ELSE Finish(fb, fb.buffer)

\* one pass of recv_strict's loop in which recv_into returns the bytes got
RecvIntoReturns(fb, got) ==
    LET fb1 == [fb EXCEPT !.buffer = fb.buffer \o got,
                          !.shortage = fb.shortage - Len(got)]
    IN  IF fb1.shortage > 0 THEN fb1 ELSE Captured(fb1)

\* an error path that also resets the fields captured so far
RecvIntoRaises_clearing(fb) ==
    [fb EXCEPT !.header = None, !.length = None, !.mask_value = None,
               !.pc = "idle", !.shortage = 0, !.buffer = <<>>, !.lock = FALSE,
               !.ret = [kind |-> "OSError", frame |-> <<>>, msg |-> ""]]

\* recv_into raises inside recv_strict: the exception leaves recv_strict,
\* whose buffer is a local, the phase's recv_* method before it assigns its
\* field, and recv_frame through the with block, which releases the lock
RecvIntoRaises(fb) ==
    [fb EXCEPT !.pc = "idle", !.shortage = 0, !.buffer = <<>>, !.lock = FALSE,
               !.ret = [kind |-> "OSError", frame |-> <<>>, msg |-> ""]]

-----------------------------------------------------------------------------
(* Wire harness: a peer encodes one frame with ABNF.format and writes it,   *)
(* followed by the first bytes of whatever it sends next, to the byte       *)
(* source of a frame_buffer, on which recv_frame is called.                 *)

\* most recv_frame calls in a run
MaxCalls == 2

\* longest payload taken from WireBytes
MaxPayloadLen == 4

\* 3, 232 is the close code 1000; 232 alone is malformed UTF-8
WireBytes == {3, 232}

\* payloads on both sides of the 7-bit length field's limit
LongPayloads == {[i \in 1..n |-> 65] : n \in {125, 126}}

WirePayloads == SeqsUpTo(WireBytes, MaxPayloadLen) \cup LongPayloads

WireKeys == {<<0, 0, 0, 0>>, <<1, 128, 165, 255>>, <<55, 250, 33, 61>>}

\* an empty PING, as the start of the next frame
WireTails == {<<>>, <<137, 0>>}

\* frame_buffer.__init__
DecoderInit ==
    /\ wire = <<>>
    /\ fb_header = None
    /\ fb_length = None
    /\ fb_mask_value = None
    /\ fb_lock = FALSE
    /\ d_pc = "idle"
    /\ d_shortage = 0
    /\ d_buffer = <<>>
    /\ d_rets = <<>>
    /\ d_zero_reads = 0
    /\ w_sent = <<>>

WireInit ==
    /\ DecoderInit
    /\ fb_skip_utf8_validation = FALSE
    /\ w_frame \in {create_frame(d, op, fin, um, None, None) :
                      d \in WirePayloads, op \in OPCODES, fin \in {0, 1},
                      um \in BOOLEAN}
    /\ w_key \in IF w_frame.mask_value = 0 THEN {<<0, 0, 0, 0>>} ELSE WireKeys
    /\ w_tail \in WireTails
    /\ w_pc = "ready"

FB ==
    [header |-> fb_header, length |-> fb_length, mask_value |-> fb_mask_value,
     lock |-> fb_lock, skip |-> fb_skip_utf8_validation, pc |-> d_pc,
     shortage |-> d_shortage, buffer |-> d_buffer, ret |-> [kind |-> "none"]]

SetFB(fb) ==
    /\ fb_header' = fb.header
    /\ fb_length' = fb.length
    /\ fb_mask_value' = fb.mask_value
    /\ fb_lock' = fb.lock
    /\ d_pc' = fb.pc
    /\ d_shortage' = fb.shortage
    /\ d_buffer' = fb.buffer
    /\ d_rets' = IF fb.ret.kind = "none" THEN d_rets ELSE Append(d_rets, fb.ret)

\* the peer: create_frame(...).format(), and the bytes go out
PeerSend ==
    /\ w_pc = "ready"
    /\ LET f == ABNF_format(w_frame, w_key)
       IN  /\ f.exc = "ok"
           /\ wire' = wire \o f.view \o w_tail
           /\ w_sent' = w_sent \o f.view \o w_tail
    /\ w_pc' = "sent"
    /\ UNCHANGED <<fb_skip_utf8_validation, fb_header, fb_length,
                   fb_mask_value, fb_lock, d_pc, d_shortage, d_buffer, d_rets,
                   w_frame, w_key, w_tail, d_zero_reads, notDecVars>>

\* recv_frame is called: the lock is taken and the call runs to its first
\* read of the source
RecvFrameCall ==
    /\ d_pc = "idle"
    /\ ~fb_lock
    /\ Len(d_rets) < MaxCalls
    /\ SetFB(Enter(FB))
    /\ UNCHANGED <<wire, fb_skip_utf8_validation, w_frame, w_key, w_tail, w_pc,
                   w_sent, d_zero_reads, notDecVars>>

\* what one recv_into may return when n bytes are asked for and at hand:
\* all of them, or only the first half (one byte of two)
Chunks(n) == {(n + 1) \div 2, n}

\* recv_into returns some of the bytes the source holds; the call goes on to
\* its next read, or to its end
RecvInto ==
    /\ d_pc \in {"header", "length", "mask", "payload"}
    /\ d_shortage > 0
    /\ Len(wire) > 0
    /\ \E k \in Chunks(Min(Min(MaxRecvInto, d_shortage), Len(wire))) :
          /\ wire' = Suffix(wire, k)
          /\ SetFB(RecvIntoReturns(FB, Prefix(wire, k)))
    /\ UNCHANGED <<fb_skip_utf8_validation, w_frame, w_key, w_tail, w_pc,
                   w_sent, d_zero_reads, notDecVars>>

WireNext == PeerSend \/ RecvFrameCall \/ RecvInto

InitWire == WireInit /\ MaskIdle /\ ReasmIdle /\ ValIdle /\ FmtIdle /\ StreamIdle

SpecWire == InitWire /\ [][WireNext]_vars

-----------------------------------------------------------------------------
(* End-of-stream harness: the peer writes the first bytes of a frame, or   *)
(* all of them, and closes; from then on recv_into returns 0 once the      *)
(* source is drained.                                                      *)

\* most recv_into calls answered with 0 that a run follows
MaxZeroReads == 3

EosInit ==
    /\ DecoderInit
    /\ fb_skip_utf8_validation = FALSE
    /\ w_frame \in {create_frame(d, OPCODE_BINARY, 1, um, None, None) :
                      d \in {<<>>, <<3, 232>>, [i \in 1..126 |-> 65]},
                      um \in BOOLEAN}
    /\ w_key = <<55, 250, 33, 61>>
    /\ w_tail = <<>>
    /\ w_pc = "ready"

\* the peer writes the first k bytes of the frame and closes the connection
PeerSendAndClose ==
    /\ w_pc = "ready"
    /\ LET f == ABNF_format(w_frame, w_key)
       IN  /\ f.exc = "ok"
           /\ \E k \in {0, 1, 2, 3, 6, Len(f.view) - 1, Len(f.view)} :
                 /\ k <= Len(f.view)
                 /\ wire' = wire \o Prefix(f.view, k)
                 /\ w_sent' = w_sent \o Prefix(f.view, k)
    /\ w_pc' = "closed"
    /\ UNCHANGED <<fb_skip_utf8_validation, fb_header, fb_length,
                   fb_mask_value, fb_lock, d_pc, d_shortage, d_buffer, d_rets,
                   d_zero_reads, w_frame, w_key, w_tail, notDecVars>>

\* one pass of recv_strict's loop in which recv_into returns 0: nothing is
\* added to the buffer, the shortage stays, the loop goes round again
RecvIntoZero ==
    /\ d_pc \in {"header", "length", "mask", "payload"}
    /\ d_shortage > 0
    /\ wire = <<>>
    /\ w_pc = "closed"
    /\ d_zero_reads < MaxZeroReads
    /\ SetFB(RecvIntoReturns(FB, <<>>))
    /\ d_zero_reads' = d_zero_reads + 1
    /\ UNCHANGED <<wire, fb_skip_utf8_validation, w_frame, w_key, w_tail, w_pc,
                   w_sent, notDecVars>>

EosNext == PeerSendAndClose \/ RecvFrameCall \/ RecvInto \/ RecvIntoZero

InitEos == EosInit /\ MaskIdle /\ ReasmIdle /\ ValIdle /\ FmtIdle /\ StreamIdle

SpecEos == InitEos /\ [][EosNext]_vars

-----------------------------------------------------------------------------
(* Stream harness: a peer sends valid frames one after the other, and      *)
(* threads call recv_frame on the one frame_buffer that reads them.        *)

\* most frames in the stream
MaxStream == 2

Threads == {"t1", "t2"}

StreamKey == <<55, 250, 33, 61>>

\* valid frames: data and control, masked and not, with and without payload,
\* one with the 2-byte extended length
StreamFrames ==
    { create_frame(<<65>>, OPCODE_TEXT, 1, FALSE, None, None),
      create_frame(<<3, 232>>, OPCODE_BINARY, 0, TRUE, None, None),
      create_frame(<<>>, OPCODE_CONT, 1, FALSE, None, None),
      create_frame(<<3, 232>>, OPCODE_CLOSE, 1, TRUE, None, None),
      create_frame(<<>>, OPCODE_PING, 1, TRUE, None, None),
      create_frame([i \in 1..126 |-> 66], OPCODE_BINARY, 1, FALSE, None, None) }

ThreadOut == [pc |-> "out", shortage |-> 0, buffer |-> <<>>, read |-> <<>>]

StreamInit ==
    /\ DecoderInit
    /\ fb_skip_utf8_validation = FALSE
    /\ w_frame = <<>>
    /\ w_key = <<>>
    /\ w_tail = <<>>
    /\ w_pc = "off"
    /\ s_frames \in UNION {[1..n -> StreamFrames] : n \in 1..MaxStream}
    /\ s_sent = 0
    /\ thr = [t \in Threads |-> ThreadOut]
    /\ t_rets = <<>>

\* the peer: format() of its next frame, and the bytes go out
PeerSendNext ==
    /\ s_sent < Len(s_frames)
    /\ LET f == ABNF_format(s_frames[s_sent + 1], StreamKey)
       IN  /\ f.exc = "ok"
           /\ wire' = wire \o f.view
           /\ w_sent' = w_sent \o f.view
    /\ s_sent' = s_sent + 1
    /\ UNCHANGED <<fb_skip_utf8_validation, fb_header, fb_length,
                   fb_mask_value, fb_lock, s_frames, thr, t_rets,
                   notStreamVars>>

\* a lock that every thread may take at any time
LockFree_Always(lock) == TRUE

\* "with self.lock": the thread goes on when no thread holds the lock
LockFree(lock) == ~lock

\* the decoder as thread t sees it: the fields of the object and the locals
\* of t's call
ThreadFB(t) ==
    [header |-> fb_header, length |-> fb_length, mask_value |-> fb_mask_value,
     lock |-> fb_lock, skip |-> fb_skip_utf8_validation, pc |-> thr[t].pc,
     shortage |-> thr[t].shortage, buffer |-> thr[t].buffer,
     ret |-> [kind |-> "none"]]

SetThreadFB(t, fb, read) ==
    /\ fb_header' = fb.header
    /\ fb_length' = fb.length
    /\ fb_mask_value' = fb.mask_value
    /\ fb_lock' = fb.lock
    /\ IF fb.ret.kind = "none"
         THEN /\ thr' = [thr EXCEPT ![t] = [pc |-> fb.pc,
                                            shortage |-> fb.shortage,
                                            buffer |-> fb.buffer,
                                            read |-> read]]
              /\ t_rets' = t_rets
         ELSE /\ thr' = [thr EXCEPT ![t] = ThreadOut]
              /\ t_rets' = Append(t_rets, [thread |-> t, kind |-> fb.ret.kind,
                                           frame |-> fb.ret.frame,
                                           read |-> read])

\* recv_frame calls begun so far
CallsBegun == Len(t_rets) + Cardinality({t \in Threads : thr[t].pc # "out"})

\* a thread calls recv_frame, gets the lock and runs to its first read
ThreadCall ==
    \E t \in Threads :
       /\ thr[t].pc = "out"
       /\ CallsBegun < Len(s_frames)
       /\ LockFree(fb_lock)
       /\ SetThreadFB(t, Enter(ThreadFB(t)), <<>>)
       /\ UNCHANGED <<wire, fb_skip_utf8_validation, w_sent, s_frames, s_sent,
                      notStreamVars>>

\* recv_into returns bytes to a thread that is in recv_strict
ThreadRecvInto ==
    \E t \in Threads :
       /\ thr[t].pc \in {"header", "length", "mask", "payload"}
       /\ thr[t].shortage > 0
       /\ Len(wire) > 0
       /\ \E k \in Chunks(Min(Min(MaxRecvInto, thr[t].shortage), Len(wire))) :
             LET pos == Len(w_sent) - Len(wire)
             IN  /\ wire' = Suffix(wire, k)
                 /\ SetThreadFB(t, RecvIntoReturns(ThreadFB(t), Prefix(wire, k)),
                                thr[t].read \o [i \in 1..k |-> pos + i])
       /\ UNCHANGED <<fb_skip_utf8_validation, w_sent, s_frames, s_sent,
                      notStreamVars>>

StreamNext == PeerSendNext \/ ThreadCall \/ ThreadRecvInto

InitStream ==
    StreamInit /\ MaskIdle /\ ReasmIdle /\ ValIdle /\ FmtIdle

SpecStream == InitStream /\ [][StreamNext]_vars

-----------------------------------------------------------------------------
(* Raw harness: the bytes of one frame with any header bits, written by a  *)
(* peer that does not go through format(), then an empty PING.  A frame    *)
(* may declare more payload than the peer delivers.                        *)

RawKey == <<55, 250, 33, 61>>

RawTail == <<137, 0>>

\* frames whose payload arrives in full: every fin, rsv and opcode
RawWhole ==
    {ABNF(fin, r1, r2, r3, op, mk, d) :
        fin \in {0, 1}, r1 \in {0, 1}, r2 \in {0, 1}, r3 \in {0, 1},
        op \in 0..15, mk \in {0, 1}, d \in {<<>>, <<3, 232>>}}
    \cup
    {ABNF(fin, 0, r2, 0, op, mk, [i \in 1..126 |-> 65]) :
        fin \in {0, 1}, r2 \in {0, 1},
        op \in {OPCODE_BINARY, 3, OPCODE_PING}, mk \in {0, 1}}

\* frames that declare 65536 bytes of which one arrives
RawShort ==
    {ABNF_window(fin, 0, 0, r3, op, mk, <<65>>, None, Some(65536)) :
        fin \in {0, 1}, r3 \in {0, 1}, op \in {OPCODE_BINARY, OPCODE_PING, 11},
        mk \in {0, 1}}

\* the bytes of a frame on the wire: header, key if masked, payload
RawBytes(frame, key) ==
    FrameHeader(frame.fin, frame.rsv1, frame.rsv2, frame.rsv3, frame.opcode,
                frame.mask_value, frame.data_msg_length_bytes)
    \o (IF frame.mask_value = 1 THEN key \o ABNF_mask(key, frame.data)
        ELSE frame.data)

RawInit ==
    /\ DecoderInit
    /\ fb_skip_utf8_validation = FALSE
    /\ w_frame \in RawWhole \cup RawShort
    /\ w_key = RawKey
    /\ w_tail = IF w_frame \in RawShort THEN <<>> ELSE RawTail
    /\ w_pc = "ready"

\* the bytes reach the source
PeerSendRaw ==
    /\ w_pc = "ready"
    /\ wire' = wire \o RawBytes(w_frame, w_key) \o w_tail
    /\ w_sent' = w_sent \o RawBytes(w_frame, w_key) \o w_tail
    /\ w_pc' = "sent"
    /\ UNCHANGED <<fb_skip_utf8_validation, fb_header, fb_length,
                   fb_mask_value, fb_lock, d_pc, d_shortage, d_buffer, d_rets,
                   d_zero_reads, w_frame, w_key, w_tail, notDecVars>>

RawNext == PeerSendRaw \/ RecvFrameCall \/ RecvInto

InitRaw ==
    RawInit /\ MaskIdle /\ ReasmIdle /\ ValIdle /\ FmtIdle /\ StreamIdle

SpecRaw == InitRaw /\ [][RawNext]_vars

-----------------------------------------------------------------------------
(* Source-error harness: while recv_frame reads a frame the byte source    *)
(* may raise instead of returning bytes; it delivers again afterwards.     *)

\* most errors the source raises in a run
MaxSourceErrors == 1

ErrInit ==
    /\ DecoderInit
    /\ fb_skip_utf8_validation = FALSE
    /\ w_frame \in {create_frame(d, OPCODE_BINARY, 1, um, None, None) :
                      d \in {<<>>, <<3, 232>>, [i \in 1..126 |-> 65]},
                      um \in BOOLEAN}
    /\ w_key = <<55, 250, 33, 61>>
    /\ w_tail \in {<<>>, <<137, 0>>}
    /\ w_pc = "ready"

\* the errors the source has raised so far
SourceErrors == Cardinality({i \in 1..Len(d_rets) : d_rets[i].kind = "OSError"})

\* recv_into raises while a recv_strict is waiting for bytes
SourceRaises ==
    /\ d_pc \in {"header", "length", "mask", "payload"}
    /\ d_shortage > 0
    /\ SourceErrors < MaxSourceErrors
    /\ SetFB(RecvIntoRaises(FB))
    /\ UNCHANGED <<wire, fb_skip_utf8_validation, w_frame, w_key, w_tail, w_pc,
                   w_sent, d_zero_reads, notDecVars>>

ErrNext == PeerSend \/ RecvFrameCall \/ RecvInto \/ SourceRaises

InitErr == ErrInit /\ MaskIdle /\ ReasmIdle /\ ValIdle /\ FmtIdle /\ StreamIdle

SpecErr == InitErr /\ [][ErrNext]_vars

-----------------------------------------------------------------------------
(* Length harness: the peer encodes a frame of L payload bytes and only    *)
(* the frame's header has reached the byte source.  The payload of the     *)
(* frame object is not spelled out: only its length L is.                  *)

LenSamples ==
    (0..130) \cup {255, 256, 65534, 65535, 65536, 65537, 16777216, 2147483647}

LenInit ==
    /\ DecoderInit
    /\ fb_skip_utf8_validation = FALSE
    /\ w_frame \in {ABNF_window(1, 0, 0, 0, OPCODE_BINARY, um, <<>>, None,
                                Some(L)) : L \in LenSamples, um \in {0, 1}}
    /\ w_key = <<0, 0, 0, 0>>
    /\ w_tail = <<>>
    /\ w_pc = "ready_header"

\* the header part of format(), and its bytes go out
PeerSendHeader ==
    /\ w_pc = "ready_header"
    /\ LET h == FrameHeader(w_frame.fin, w_frame.rsv1, w_frame.rsv2,
                            w_frame.rsv3, w_frame.opcode, w_frame.mask_value,
                            w_frame.data_msg_length_bytes)
       IN  /\ wire' = wire \o h
           /\ w_sent' = w_sent \o h
    /\ w_pc' = "header_sent"
    /\ UNCHANGED <<fb_skip_utf8_validation, fb_header, fb_length,
                   fb_mask_value, fb_lock, d_pc, d_shortage, d_buffer, d_rets,
                   w_frame, w_key, w_tail, d_zero_reads, notDecVars>>

LenNext == PeerSendHeader \/ RecvFrameCall \/ RecvInto

InitLen == LenInit /\ MaskIdle /\ ReasmIdle /\ ValIdle /\ FmtIdle /\ StreamIdle

SpecLen == InitLen /\ [][LenNext]_vars

-----------------------------------------------------------------------------
(* Validation harness: ABNF.validate applied to one frame *)

ValCodes ==
    {0, 999} \cup (1000..1016) \cup {2999, 3000, 3001, 4999, 5000, 5001, 65535}

\* none, 'A', U+00E9, and three malformed ones
ValReasons == {<<>>, <<65>>, <<195, 169>>, <<195>>, <<169>>, <<65, 255>>}

\* a close payload of the code and the reason, filled with 'A' up to total
\* bytes when it is shorter
ClosePayload(code, reason, total) ==
    LET p == BigEndian(code, 2) \o reason
    IN  p \o [i \in 1..(total - Len(p)) |-> 65]

ClosePayloads ==
    {<<>>, <<3>>, <<232>>} \cup
    {ClosePayload(c, r, t) : c \in ValCodes, r \in ValReasons, t \in {0, 125, 126}}

ValFrames ==
    {ABNF(fin, 0, 0, 0, OPCODE_CLOSE, 0, d) : fin \in {0, 1}, d \in ClosePayloads}
    \cup
    {ABNF(fin, r1, r2, r3, op, 0, d) :
        fin \in {0, 1}, r1 \in {0, 1}, r2 \in {0, 1}, r3 \in {0, 1},
        op \in 0..15, d \in {<<>>, <<195>>}}

ValInit ==
    /\ v_frame \in ValFrames
    /\ v_skip \in BOOLEAN
    /\ v_out = <<>>
    /\ v_pc = "start"

Validate ==
    /\ v_pc = "start"
    /\ v_out' = ABNF_validate(v_frame, v_skip)
    /\ v_pc' = "done"
    /\ UNCHANGED <<v_frame, v_skip, notValVars>>

ValNext == Validate

InitVal == ValInit /\ MaskIdle /\ ReasmIdle /\ DecIdle /\ FmtIdle /\ StreamIdle

SpecVal == InitVal /\ [][ValNext]_vars

-----------------------------------------------------------------------------
(* Claims about the decoder and the encoder *)

ControlOpcodes == {OPCODE_CLOSE, OPCODE_PING, OPCODE_PONG}

DataOpcodes == {OPCODE_CONT, OPCODE_TEXT, OPCODE_BINARY}

\* C4 as stated: a control frame that recv_frame returns has fin=1 and at
\* most 125 payload bytes, and a control frame with fin=0 or more than 125
\* payload bytes makes recv_frame raise a protocol error.
C4_AsStated ==
    /\ \A i \in 1..Len(d_rets) :
          (d_rets[i].kind = "frame" /\ d_rets[i].frame.opcode \in ControlOpcodes)
          => /\ d_rets[i].frame.fin = 1
             /\ Len(d_rets[i].frame.data) <= 125
    /\ ( /\ w_pc = "sent"
         /\ Len(d_rets) >= 1
         /\ w_frame.opcode \in ControlOpcodes
         /\ w_frame.fin = 0 \/ Len(w_frame.data) > 125 )
       => d_rets[1].kind = "WebSocketProtocolException"

\* the first recv_frame call on the fresh decoder is over and no other began
FirstReturned == Len(d_rets) = 1 /\ d_pc = "idle"

\* C8: a data frame encoded with fin=1 and masking comes back from
\* recv_frame on a fresh decoder with the same fin, opcode and payload, and
\* the call reads the emitted bytes and no byte after them.
C8_MaskedRoundTrip ==
    ( /\ w_pc = "sent"
      /\ w_frame.opcode \in DataOpcodes
      /\ w_frame.fin = 1
      /\ w_frame.mask_value = 1 )
    => /\ Len(d_rets) >= 1 =>
             /\ d_rets[1].kind = "frame"
             /\ d_rets[1].frame.fin = 1
             /\ d_rets[1].frame.opcode = w_frame.opcode
             /\ d_rets[1].frame.data = w_frame.data
       /\ FirstReturned => wire = w_tail
       /\ (Len(d_rets) = 0 /\ d_pc # "idle")
             => d_shortage + Len(w_tail) <= Len(wire)

C8_Witness ==
    /\ FirstReturned
    /\ w_frame.opcode = OPCODE_TEXT
    /\ w_frame.fin = 1
    /\ w_frame.mask_value = 1
    /\ w_key = <<55, 250, 33, 61>>
    /\ w_tail = <<137, 0>>
    /\ Len(w_frame.data) = 126
    /\ d_rets[1].kind = "frame"
    /\ d_rets[1].frame.data = w_frame.data
    /\ wire = w_tail

\* C9: the length field is L below 126, 126 with L in 2 big-endian bytes
\* below 2^16, and 127 with L in 8 big-endian bytes from 2^16 on; and
\* recv_length finds L again, having read the header and nothing else.
C9_LengthFieldRoundTrip ==
    LET L == w_frame.data_msg_length_bytes
        h == w_sent
    IN  w_pc = "header_sent" =>
          /\ h[2] % 128 = (IF L < 126 THEN L ELSE IF L < 65536 THEN 126 ELSE 127)
          /\ L < 126 => Len(h) = 2
          /\ (126 <= L /\ L < 65536) =>
                Len(h) = 4 /\ h[3] = L \div 256 /\ h[4] = L % 256
          /\ L >= 65536 =>
                /\ Len(h) = 10
                /\ \A i \in 3..6 : h[i] = 0
                /\ h[7] = L \div 16777216
                /\ h[8] = (L \div 65536) % 256
                /\ h[9] = (L \div 256) % 256
                /\ h[10] = L % 256
          /\ fb_length # None => fb_length = Some(L)
          /\ d_pc \in {"mask", "payload"} => fb_length = Some(L) /\ wire = <<>>
          /\ Len(d_rets) >= 1 => L = 0 /\ d_rets[1].kind = "frame"

C9_Witness ==
    /\ w_pc = "header_sent"
    /\ w_frame.data_msg_length_bytes = 65536
    /\ w_sent = <<130, 127, 0, 0, 0, 0, 0, 1, 0, 0>>
    /\ d_pc = "payload"
    /\ fb_length = Some(65536)
    /\ wire = <<>>

-----------------------------------------------------------------------------
(* Claims about ABNF.validate *)

IsClose == v_pc = "done" /\ v_frame.opcode = OPCODE_CLOSE

RsvZero == v_frame.rsv1 = 0 /\ v_frame.rsv2 = 0 /\ v_frame.rsv3 = 0

CloseCode == 256 * v_frame.data[1] + v_frame.data[2]

CloseReason == SubSeq(v_frame.data, 3, Len(v_frame.data))

\* the codes section 4.3 of the reference lists as acceptable in a CLOSE frame
CloseCodeAllowed ==
    \/ CloseCode \in {1000, 1001, 1002, 1003, 1007, 1008, 1009, 1010, 1011,
                      1012, 1013, 1014}
    \/ CloseCode >= 3000 /\ CloseCode < 5000

\* C5: a CLOSE frame with zero rsv bits passes validation exactly when its
\* payload is empty, or is 2 to 125 bytes long with a code that is one of
\* 1000-1003, 1007-1014 or in [3000, 5000) and, unless skip_utf8_validation
\* is set, a reason that is valid UTF-8.
C5_CloseAcceptedIff ==
    (IsClose /\ RsvZero) =>
      ( v_out.exc = "ok" <=>
          \/ Len(v_frame.data) = 0
          \/ /\ Len(v_frame.data) >= 2
             /\ Len(v_frame.data) <= 125
             /\ CloseCodeAllowed
             /\ v_skip \/ validate_utf8(CloseReason) )

C5_Witness ==
    /\ IsClose
    /\ ~v_skip
    /\ Len(v_frame.data) = 125
    /\ CloseCode = 4999
    /\ SubSeq(v_frame.data, 3, 4) = <<195, 169>>
    /\ v_out.exc = "ok"

\* C7 as stated: a CLOSE frame of valid length whose reason is malformed
\* UTF-8 raises a payload error, not a protocol error.
C7_AsStated ==
    ( /\ IsClose
      /\ RsvZero
      /\ Len(v_frame.data) > 2
      /\ Len(v_frame.data) <= 125
      /\ CloseCodeAllowed
      /\ ~v_skip
      /\ ~validate_utf8(CloseReason) )
    => v_out.exc = "WebSocketPayloadException"

\* C13 as stated: once recv_into has returned 0 before the bytes asked for
\* have arrived, recv_strict reads no more and the call ends with a
\* connection-closed error.
C13_AsStated ==
    d_zero_reads > 0 =>
       /\ d_zero_reads = 1
       /\ d_pc = "idle"
       /\ Len(d_rets) >= 1
       /\ d_rets[Len(d_rets)].kind = "WebSocketConnectionClosedException"

-----------------------------------------------------------------------------
(* Claims about recv_frame on a stream of frames *)

InCall == {t \in Threads : thr[t].pc # "out"}

\* the positions are one run of the stream, in order
Contiguous(read) == \A j \in 1..(Len(read) - 1) : read[j + 1] = read[j] + 1

\* the bytes of the stream at the positions
BytesAt(read) == [j \in 1..Len(read) |-> w_sent[read[j]]]

\* the bytes of a frame as recv_frame returns it, encoded again with the
\* stream's key
Encoded(frame) == ABNF_format(frame, StreamKey).view

\* C14: at most one thread at a time is inside recv_frame's locked body,
\* which is where the source is read and the header, length and mask fields
\* are read and written (they are set only while the lock is held); every
\* frame returned was built from one contiguous run of the stream's bytes,
\* and no byte was read by two calls.
C14_LockSerializes ==
    /\ Cardinality(InCall) <= 1
    /\ fb_lock <=> InCall # {}
    /\ (fb_header # None \/ fb_length # None \/ fb_mask_value # None) => fb_lock
    /\ \A i \in 1..Len(t_rets) :
          /\ t_rets[i].kind = "frame"
          /\ Contiguous(t_rets[i].read)
          /\ BytesAt(t_rets[i].read) = Encoded(t_rets[i].frame)
          /\ \A j \in 1..Len(t_rets) :
                i # j => \A a \in 1..Len(t_rets[i].read) :
                            \A b \in 1..Len(t_rets[j].read) :
                               t_rets[i].read[a] # t_rets[j].read[b]
          /\ \A t \in Threads :
                \A a \in 1..Len(t_rets[i].read) :
                   \A b \in 1..Len(thr[t].read) :
                      t_rets[i].read[a] # thr[t].read[b]

C14_Witness ==
    /\ Len(t_rets) = 2
    /\ t_rets[1].thread # t_rets[2].thread
    /\ t_rets[1].kind = "frame"
    /\ t_rets[1].frame.opcode = OPCODE_BINARY
    /\ t_rets[1].frame.data = <<3, 232>>
    /\ t_rets[2].kind = "frame"
    /\ Len(t_rets[2].frame.data) = 126
    /\ Len(t_rets[2].read) = 130

\* bytes of extended length for a payload of L bytes
ExtLen(L) == IF L < 126 THEN 0 ELSE IF L < 65536 THEN 2 ELSE 8

\* bytes of the i-th frame of the stream on the wire
WireSize(i) ==
    2 + ExtLen(Len(s_frames[i].data))
      + (IF s_frames[i].mask_value = 1 THEN 4 ELSE 0)
      + Len(s_frames[i].data)

RECURSIVE WireStart(_)
\* bytes on the wire before the i-th frame of the stream
WireStart(i) == IF i <= 1 THEN 0 ELSE WireStart(i - 1) + WireSize(i - 1)

\* C15: the i-th recv_frame call to end returns the i-th frame of the stream
\* and has read that frame's bytes, all of them and no other: 2 header
\* bytes, 0, 2 or 8 of extended length, 0 or 4 of mask key, L of payload.
C15_FramesInWireOrder ==
    /\ Len(t_rets) <= s_sent
    /\ \A i \in 1..Len(t_rets) :
          /\ t_rets[i].kind = "frame"
          /\ t_rets[i].frame.fin = s_frames[i].fin
          /\ t_rets[i].frame.opcode = s_frames[i].opcode
          /\ t_rets[i].frame.data = s_frames[i].data
          /\ t_rets[i].read = [j \in 1..WireSize(i) |-> WireStart(i) + j]
    /\ (Len(t_rets) = s_sent /\ InCall = {}) => wire = <<>>

C15_Witness ==
    /\ Len(s_frames) = 2
    /\ Len(t_rets) = 2
    /\ t_rets[1].thread = t_rets[2].thread
    /\ t_rets[1].frame.opcode = OPCODE_BINARY
    /\ t_rets[1].frame.fin = 0
    /\ t_rets[1].read = <<1, 2, 3, 4, 5, 6, 7, 8>>
    /\ t_rets[2].frame.opcode = OPCODE_CLOSE
    /\ t_rets[2].frame.data = <<3, 232>>
    /\ t_rets[2].read = <<9, 10, 11, 12, 13, 14, 15, 16>>
    /\ wire = <<>>

-----------------------------------------------------------------------------
(* Claims about ABNF.format on a window *)

Formatted == f_pc = "done" /\ f_out.exc = "ok"

\* the message of the frame handed to format(): the L bytes from the offset
FmtMessage ==
    SubSeq(f_frame.data, f_frame.data_start_offset_bytes + 1,
           f_frame.data_start_offset_bytes + f_frame.data_msg_length_bytes)

FmtHeader ==
    FrameHeader(f_frame.fin, f_frame.rsv1, f_frame.rsv2, f_frame.rsv3,
                f_frame.opcode, f_frame.mask_value,
                f_frame.data_msg_length_bytes)

\* C11 as stated: for an unmasked frame with a margin of m bytes, the view
\* format() returns is the header followed by the L message bytes; it lies in
\* the caller's buffer when the header fits in the margin, and is a fresh
\* buffer of header and message otherwise.
C11_AsStated ==
    (Formatted /\ f_frame.mask_value = 0) =>
       /\ f_out.view = FmtHeader \o FmtMessage
       /\ IF Len(FmtHeader) <= f_frame.data_start_offset_bytes
            THEN /\ Len(f_out.data) = Len(f_frame.data)
                 /\ f_out.data_start_offset_bytes =
                       f_frame.data_start_offset_bytes - Len(FmtHeader)
            ELSE f_out.data = FmtHeader \o FmtMessage

\* C12 as stated: with masking the frame is the header with mask bit 1 and
\* length L, the key, and the L message bytes masked; without masking it is
\* the header with mask bit 0 and the L message bytes.
C12_AsStated ==
    Formatted =>
       /\ f_out.view[2] \div 128 = f_frame.mask_value
       /\ f_frame.mask_value = 1 =>
             f_out.view = FmtHeader \o f_key \o ABNF_mask(f_key, FmtMessage)
       /\ f_frame.mask_value = 0 => f_out.view = FmtHeader \o FmtMessage

-----------------------------------------------------------------------------
(* Claims about the reassembler with fire_cont_frame *)

\* a message is open, by the frames accepted so far: the last one had fin=0
Open == Len(r_hist) >= 1 /\ Last(r_hist).fin = 0

\* C16: with fire_cont_frame = true a data frame is refused with a protocol
\* error when it is a CONT and no message is open or a TEXT or BINARY and
\* one is open; every other data frame is emitted at once with its own
\* opcode and its own payload, whatever bytes a TEXT payload holds.
C16_FireEmitsEachFrame ==
    /\ [][(fire_cont_frame /\ r_in'[1].opcode \in DataOpcodes) =>
            IF \/ r_in'[1].opcode = OPCODE_CONT /\ ~Open
               \/ r_in'[1].opcode \in {OPCODE_TEXT, OPCODE_BINARY} /\ Open
              THEN r_out'.kind = "WebSocketProtocolException"
              ELSE r_out' = [kind |-> "message", opcode |-> r_in'[1].opcode,
                             data |-> r_in'[1].data]]_vars
    /\ [](fire_cont_frame =>
            r_out.kind \notin {"nothing", "WebSocketPayloadException"})

\* the second half of U+00E9 alone comes out as a CONT of a TEXT message
C16_Witness ==
    /\ fire_cont_frame
    /\ ~skip_utf8_validation
    /\ Len(r_hist) = 3
    /\ r_hist[1] = ABNF(0, 0, 0, 0, OPCODE_TEXT, 0, <<65>>)
    /\ r_hist[2].fin = 0
    /\ r_in = Some(ABNF(1, 0, 0, 0, OPCODE_CONT, 0, <<169>>))
    /\ r_out = [kind |-> "message", opcode |-> OPCODE_CONT, data |-> <<169>>]

\* C17 as stated: after a data frame has been processed, in both modes, the
\* building opcode is set if and only if the accumulated payload is set.
C17_AsStated ==
    AfterData => (recving_frames # None <=> cont_data # None)

\* C17, amended: with fire_cont_frame = false the building opcode is set if
\* and only if the accumulated payload is set; with fire_cont_frame = true
\* the accumulated payload is never set after a frame has been processed;
\* in both modes the building opcode is set exactly while a message is open.
C17_BuildingIffAccumulating ==
    AfterData =>
       /\ recving_frames # None <=> Open
       /\ IF fire_cont_frame
            THEN cont_data = None
            ELSE recving_frames # None <=> cont_data # None

C17_Witness ==
    /\ ~fire_cont_frame
    /\ r_out.kind = "nothing"
    /\ recving_frames = Some(OPCODE_TEXT)
    /\ cont_data = <<OPCODE_TEXT, <<65, 195>>>>

-----------------------------------------------------------------------------
(* Claims about recv_frame on frames with any header bits *)

\* the frame has a fault that ABNF.validate looks for in every frame
BadHeader(frame) ==
    \/ frame.rsv1 # 0
    \/ frame.rsv2 # 0
    \/ frame.rsv3 # 0
    \/ frame.opcode \notin {0, 1, 2, 8, 9, 10}
    \/ frame.opcode = 9 /\ frame.fin = 0

\* C18: for a frame with an rsv bit set, an opcode outside 0, 1, 2, 8, 9,
\* 10, or a PING with fin=0, recv_frame raises a protocol error (with
\* "rsv is not implemented, yet" for an rsv bit) and returns no frame; it
\* does so only once every byte of the frame, the declared payload included,
\* has been read, and no sooner: while payload is missing the call waits.
C18_BadHeaderRejectedAfterPayload ==
    (w_pc = "sent" /\ BadHeader(w_frame)) =>
       /\ Len(d_rets) >= 1 =>
             /\ d_rets[1].kind = "WebSocketProtocolException"
             /\ (w_frame.rsv1 # 0 \/ w_frame.rsv2 # 0 \/ w_frame.rsv3 # 0)
                   => d_rets[1].msg = "rsv is not implemented, yet"
             /\ Len(wire) <= Len(w_tail)
             /\ Len(w_frame.data) = w_frame.data_msg_length_bytes
       /\ FirstReturned => wire = w_tail
       /\ (wire = <<>> /\ Len(w_frame.data) < w_frame.data_msg_length_bytes
             /\ d_pc # "idle")
            => /\ d_rets = <<>>
               /\ d_pc = "payload"
               /\ d_shortage = w_frame.data_msg_length_bytes - Len(w_frame.data)

C18_Witness ==
    /\ FirstReturned
    /\ w_frame.opcode = 3
    /\ w_frame.rsv2 = 1
    /\ w_frame.mask_value = 1
    /\ Len(w_frame.data) = 126
    /\ d_rets[1].kind = "WebSocketProtocolException"
    /\ wire = RawTail

\* the bytes the recv_strict in progress was asked for
BufSize == d_shortage + Len(d_buffer)

\* the frame the call in progress is reading: the peer's, then the empty PING
CurLength == IF d_rets = <<>> THEN w_frame.data_msg_length_bytes ELSE 0

CurMask == IF d_rets = <<>> THEN w_frame.mask_value ELSE 0

\* C19: recv_frame asks for 2 header bytes first; then for 2 or 8 bytes of
\* extended length exactly when the length field is 126 or 127; then for 4
\* bytes of mask key exactly when the mask bit is set; then for the L
\* declared payload bytes; a phase is asked for only when the one before is
\* captured and its own field is not, and the size asked for never changes
\* within a phase.  The payload returned is the unmasked one.
C19_PhasesInOrder ==
    /\ [][/\ (d_pc' = "header" /\ d_pc # "header") =>
                /\ d_pc = "idle"
                /\ fb_header' = None
                /\ BufSize' = 2
          /\ (d_pc' = "length" /\ d_pc # "length") =>
                /\ d_pc = "header"
                /\ fb_header' # None /\ fb_length' = None
                /\ CurLength >= 126
                /\ BufSize' = (IF CurLength < 65536 THEN 2 ELSE 8)
          /\ (d_pc' = "mask" /\ d_pc # "mask") =>
                /\ d_pc = (IF CurLength < 126 THEN "header" ELSE "length")
                /\ fb_length' = Some(CurLength) /\ fb_mask_value' = None
                /\ CurMask = 1
                /\ BufSize' = 4
          /\ (d_pc' = "payload" /\ d_pc # "payload") =>
                /\ d_pc = (IF CurMask = 1 THEN "mask"
                           ELSE IF CurLength < 126 THEN "header" ELSE "length")
                /\ fb_length' = Some(CurLength)
                /\ fb_mask_value' = (IF CurMask = 1 THEN Some(w_key)
                                     ELSE Some(<<>>))
                /\ CurLength > 0
                /\ BufSize' = CurLength
          /\ (d_pc' = "idle" /\ d_pc # "idle") =>
                d_pc = (IF CurLength > 0 THEN "payload"
                        ELSE IF CurMask = 1 THEN "mask" ELSE "header")
          /\ (d_pc' = d_pc /\ d_pc # "idle") => BufSize' = BufSize
         ]_vars
    /\ [](Len(d_rets) >= 1 => d_rets[1].frame.data = w_frame.data)

C19_Witness ==
    /\ d_pc = "payload"
    /\ BufSize = 65536
    /\ d_buffer = <<118>>
    /\ w_frame.mask_value = 1
    /\ fb_length = Some(65536)
    /\ fb_mask_value = Some(RawKey)

\* C20: whenever no recv_frame call is in progress, a frame having been
\* returned or a protocol error raised for a frame read in full, the header,
\* length and mask fields are absent and the lock is free; the next call
\* starts with a read of 2 bytes at the first byte after the frame, and so
\* returns the frame that follows.
C20_ClearedAfterFrame ==
    /\ [](d_pc = "idle" =>
            /\ fb_header = None
            /\ fb_length = None
            /\ fb_mask_value = None
            /\ ~fb_lock)
    /\ [][(d_pc = "idle" /\ d_pc' # "idle" /\ Len(d_rets) = 1) =>
             /\ d_pc' = "header"
             /\ d_shortage' = 2
             /\ wire' = w_tail]_vars
    /\ [](Len(d_rets) >= 2 =>
            /\ d_rets[2].kind = "frame"
            /\ d_rets[2].frame.opcode = OPCODE_PING
            /\ d_rets[2].frame.data = <<>>)

C20_Witness ==
    /\ Len(d_rets) = 2
    /\ d_pc = "idle"
    /\ d_rets[1].kind = "WebSocketProtocolException"
    /\ d_rets[1].frame.opcode = OPCODE_CLOSE
    /\ d_rets[1].frame.data = <<3, 232>>
    /\ d_rets[1].frame.fin = 1
    /\ d_rets[1].frame.rsv1 = 1
    /\ d_rets[2].kind = "frame"
    /\ fb_header = None
    /\ ~fb_lock

-----------------------------------------------------------------------------
(* Claims about recv_frame when the source raises *)

\* this step is a recv_frame call ending with the source's error
Raised ==
    /\ Len(d_rets') = Len(d_rets) + 1
    /\ d_rets'[Len(d_rets')].kind = "OSError"

\* this step is a recv_frame call beginning after an error of the source
CalledAfterError ==
    /\ d_pc = "idle"
    /\ d_pc' # "idle"
    /\ Len(d_rets) >= 1
    /\ d_rets[Len(d_rets)].kind = "OSError"

\* C21: when the source raises in some phase, recv_frame ends with that
\* error, the lock is free, no byte goes back to the source, and header,
\* length and mask key are as they were: those of the phases before are
\* captured, that of the phase interrupted and of the later ones are not.
\* The next call asks for the first phase not captured, in full, with an
\* empty buffer, and reads no captured phase again.
C21_ResumesAfterSourceError ==
    /\ [][Raised =>
            /\ d_pc' = "idle"
            /\ ~fb_lock'
            /\ wire' = wire
            /\ d_buffer' = <<>>
            /\ fb_header' = fb_header
            /\ fb_length' = fb_length
            /\ fb_mask_value' = fb_mask_value
            /\ fb_header # None <=> d_pc \in {"length", "mask", "payload"}
            /\ fb_length # None <=> d_pc \in {"mask", "payload"}
            /\ fb_mask_value # None <=> d_pc = "payload"]_vars
    /\ [][CalledAfterError =>
            /\ fb_lock'
            /\ d_buffer' = <<>>
            /\ wire' = wire
            /\ fb_header' = fb_header
            /\ fb_length' = fb_length
            /\ fb_mask_value' = fb_mask_value
            /\ d_pc' = (IF fb_header = None THEN "header"
                        ELSE IF fb_length = None THEN "length"
                        ELSE IF fb_mask_value = None THEN "mask"
                        ELSE "payload")
            /\ d_shortage' = (IF fb_header = None THEN 2
                              ELSE IF fb_length = None
                                THEN (IF fb_header[1][7] = 126 THEN 2 ELSE 8)
                              ELSE IF fb_mask_value = None THEN 4
                              ELSE fb_length[1])]_vars

\* one payload byte was read before the error: the next call takes the
\* second payload byte and the first byte of the following frame as payload
C21_Witness ==
    /\ Len(d_rets) = 2
    /\ d_rets[1].kind = "OSError"
    /\ d_rets[2].kind = "frame"
    /\ w_frame.mask_value = 0
    /\ w_frame.data = <<3, 232>>
    /\ d_rets[2].frame.data = <<232, 137>>
    /\ wire = <<0>>

-----------------------------------------------------------------------------
(* Claims about the reassembler after extract *)

\* extract has just run: it emitted a message or raised the payload error
Extracted == r_out.kind \in {"message", "WebSocketPayloadException"}

\* C22: after extract has emitted or has raised the payload error no payload
\* is accumulated, and with fire_cont_frame = false no message is open; a
\* TEXT or BINARY frame that follows is then accepted, and what it starts,
\* or emits when it has fin=1, holds its own payload and nothing else.
C22_ReleasedAfterExtract ==
    /\ [](Extracted =>
            /\ cont_data = None
            /\ ~fire_cont_frame => recving_frames = None)
    /\ [][( /\ ~fire_cont_frame
            /\ Extracted
            /\ r_in'[1].opcode \in {OPCODE_TEXT, OPCODE_BINARY} ) =>
            /\ r_out'.kind # "WebSocketProtocolException"
            /\ IF r_in'[1].fin = 0
                 THEN /\ r_out'.kind = "nothing"
                      /\ cont_data' = <<r_in'[1].opcode, r_in'[1].data>>
                      /\ recving_frames' = Some(r_in'[1].opcode)
                 ELSE /\ cont_data' = None
                      /\ recving_frames' = None
                      /\ IF /\ r_in'[1].opcode = OPCODE_TEXT
                            /\ ~skip_utf8_validation
                            /\ ~validate_utf8(r_in'[1].data)
                           THEN r_out'.kind = "WebSocketPayloadException"
                           ELSE r_out' = [kind |-> "message",
                                          opcode |-> r_in'[1].opcode,
                                          data |-> r_in'[1].data]]_vars

\* a fragmented TEXT message has just failed the UTF-8 check
C22_Witness ==
    /\ ~fire_cont_frame
    /\ r_out.kind = "WebSocketPayloadException"
    /\ Len(r_hist) = 2
    /\ Concat(r_hist) = <<65, 195>>
    /\ cont_data = None
    /\ recving_frames = None

=============================================================================
